---- MODULE Spec2Model ----
(***************************************************************************)
(* Ingestion pipeline and sharded content store of the image hoarder:      *)
(* ParquetStorage (storage.py), AsyncScraper (scraper.py), the catalog     *)
(* tables (database.py) and the viewer's shard reader (viewer.py).         *)
(*                                                                         *)
(* Byte strings are sequences of small integers; one "byte" of the model   *)
(* stands for one size unit, and SHARD_SIZE_LIMIT is counted in the same   *)
(* unit.  A parquet file is the sequence of its rows; its on-disk size is  *)
(* the sum of the payload sizes it holds.  Row timestamps are left out.    *)
(***************************************************************************)
EXTENDS Integers, Sequences, FiniteSets, TLC

VARIABLES
    storage,        \* the scraper's ParquetStorage object
    files,          \* hoard/parquet/danbooru: shard file name -> rows on disk
    db,             \* hoard.db: the images table and the hash_index table
    parquet_cache,  \* the viewer's process-wide shard cache
    pc,             \* where the scheduler process is: closed, idle, list, gather, final
    pass,           \* locals of the running scrape_artist call
    tasks,          \* the process_post coroutines of the current page
    permits,        \* free permits of the scraper's semaphore
    pass_result,    \* value returned by the last scrape_artist call, NoResult before
    ret,            \* value returned by the last ParquetStorage call
    lastOp,         \* the last operation that ran, with its inputs
    lastRead,       \* the last viewer read: image id and bytes served
    written,        \* image id -> payload handed to the flush that recorded it
    passAdded,      \* posts buffered by add_image during the running pass
    run,            \* the current run of consecutive add_image calls
    resumed,        \* what the last construction selected, and the flushes since
    passes,         \* passes started
    restarts,       \* process restarts
    calls,          \* direct store calls made
    conn,           \* the scraper's sqlite connection: its open transaction
    artists,        \* hoard.db: the artists table, id -> row
    now,            \* datetime.now(), in clock ticks
    scheduler,      \* where Scheduler.run is, with its locals
    jobs,           \* JobManager.jobs: job id -> job dict
    queue,          \* JobManager.queue
    current_job_id, \* JobManager.current_job_id, 0 for None
    stop_event,     \* JobManager.stop_event
    worker,         \* where the worker thread is, with its locals
    canceller,      \* where a request thread inside cancel_current_job is
    download        \* one download_image call: its attempts, sleeps and result

pipelineVars == <<storage, files, db, parquet_cache, pc, pass, tasks, permits,
                  pass_result, ret, lastOp, lastRead, written, passAdded, run,
                  resumed, passes, restarts, calls>>

schedVars == <<artists, now, scheduler>>

jobVars == <<jobs, queue, current_job_id, stop_event, worker, canceller>>

vars == <<pipelineVars, conn, schedVars, jobVars, download>>

\* Python's None where a str is expected (a hash, a post id)
None == "None"
\* Python's None where a flush result dict is expected
NoFlush == [none |-> TRUE]
\* Python's None where bytes are expected; as falsy as b""
NoBytes == <<>>
\* pass_result while no scrape_artist call has returned
NoResult == "NoResult"

\* SQL NULL in a DATETIME column; a timestamp t is <<t>>
NULL == <<>>

\* ---------------------------------------------------------------- bounds

NPosts == 3
NItems == 4
NArtists == 1
MaxPasses == 2
MaxRestarts == 1
MaxCalls == 6
MaxSources == 2
NQueued == 6
MaxJobs == 2
MaxCancels == 1
MaxListPages == 1
MaxItems == 3
MaxCpus == 3
MaxTime == 3

\* ------------------------------------------------------ program constants

\* SHARD_SIZE_LIMIT_MB * 1024 * 1024, in size units
SHARD_SIZE_LIMIT == 4
\* limit=100 of post_list, in posts
PAGE_LIMIT == 6
concurrency_limit == 5
\* self.cooldown_minutes = 60, in clock ticks of 30 minutes
cooldown_minutes == 2
\* probability_weight is kept in thousandths: 1.0, 10.0, the floor 0.1 and
\* the cap 100.0
WEIGHT_DEFAULT == 1000
WEIGHT_FAVORITE == 10000
WEIGHT_FLOOR == 100
WEIGHT_CAP == 100000
DEDUPLICATE_IMAGES == FALSE

\* ---------------------------------------------------------------- helpers

RECURSIVE SumSizes(_)
SumSizes(rows) ==
    IF rows = <<>> THEN 0 ELSE rows[1].size + SumSizes(Tail(rows))

MaxOf(S) == CHOOSE m \in S : \A n \in S : n <= m

\* f"shard_{index:04d}.parquet": the digits of the index, zero-padded to four
shard_filename(index) ==
    <<(index \div 1000) % 10, (index \div 100) % 10, (index \div 10) % 10, index % 10>>

\* int(f.replace("shard_", "").replace(".parquet", ""))
parse_index(f) == f[1] * 1000 + f[2] * 100 + f[3] * 10 + f[4]

\* os.path.getsize of a shard file
getsize(fs, path) == SumSizes(fs[path])

\* pq.write_table(table, shard_path): creates or replaces the file
write_table(fs, path, rows) ==
    [f \in DOMAIN fs \cup {path} |-> IF f = path THEN rows ELSE fs[f]]

\* ------------------------------------------------------- ParquetStorage

\* size >= SHARD_SIZE_LIMIT_MB * 1024 * 1024
ReachedLimitStrict(size) == size > SHARD_SIZE_LIMIT

ReachedLimit(size) == size >= SHARD_SIZE_LIMIT

ResumeAlways(fs) ==
    IF DOMAIN fs = {}
    THEN [current_shard_index |-> 0, existing_shard_size |-> 0, buffer_size_bytes |-> 0]
    ELSE LET max_idx == MaxOf({parse_index(f) : f \in DOMAIN fs})
             size == getsize(fs, shard_filename(max_idx))
         IN [current_shard_index |-> max_idx, existing_shard_size |-> size,
             buffer_size_bytes |-> size]

NewShardAlways(fs) ==
    IF DOMAIN fs = {}
    THEN [current_shard_index |-> 0, existing_shard_size |-> 0, buffer_size_bytes |-> 0]
    ELSE LET max_idx == MaxOf({parse_index(f) : f \in DOMAIN fs})
         IN [current_shard_index |-> max_idx + 1, existing_shard_size |-> 0,
             buffer_size_bytes |-> 0]

_init_shard_state(fs) ==
    IF DOMAIN fs = {}
    THEN [current_shard_index |-> 0, existing_shard_size |-> 0, buffer_size_bytes |-> 0]
    ELSE LET max_idx == MaxOf({parse_index(f) : f \in DOMAIN fs})
             size == getsize(fs, shard_filename(max_idx))
         IN IF ~ReachedLimit(size)
            THEN [current_shard_index |-> max_idx, existing_shard_size |-> size,
                  buffer_size_bytes |-> size]
            ELSE [current_shard_index |-> max_idx + 1, existing_shard_size |-> 0,
                  buffer_size_bytes |-> 0]

ParquetStorage(fs) ==
    LET s == _init_shard_state(fs)
    IN [buffer |-> <<>>, seen_hashes |-> {},
        current_shard_index |-> s.current_shard_index,
        existing_shard_size |-> s.existing_shard_size,
        buffer_size_bytes |-> s.buffer_size_bytes]

\* start_offset = len(existing_df)
StartOffsetZero(existing_df) == 0

StartOffset(existing_df) == Len(existing_df)

\* read_ok: whether pd.read_parquet of the existing shard succeeds
flush(st, fs, read_ok) ==
    IF st.buffer = <<>>
    THEN [st |-> st, fs |-> fs, ret |-> NoFlush]
    ELSE
      LET name0 == shard_filename(st.current_shard_index)
          exists == name0 \in DOMAIN fs
          fallback == exists /\ ~read_ok
          index == IF fallback THEN st.current_shard_index + 1 ELSE st.current_shard_index
          name == shard_filename(index)
          start_offset == IF exists /\ read_ok THEN StartOffset(fs[name0]) ELSE 0
          final_df == IF exists /\ read_ok THEN fs[name0] \o st.buffer ELSE st.buffer
          fs1 == write_table(fs, name, final_df)
          size == getsize(fs1, name)
          rotate == ReachedLimit(size)
      IN [st |-> [buffer |-> <<>>, seen_hashes |-> {},
                  current_shard_index |-> IF rotate THEN index + 1 ELSE index,
                  existing_shard_size |-> IF rotate THEN 0 ELSE size,
                  buffer_size_bytes |-> IF rotate THEN 0 ELSE size],
          fs |-> fs1,
          ret |-> [shard_file |-> name, count |-> Len(st.buffer),
                   rows |-> st.buffer, start_offset |-> start_offset]]

\* image_hash in self.seen_hashes
SeenNever(st, image_hash) == FALSE

Seen(st, image_hash) == image_hash \in st.seen_hashes

\* the buffer-full check of add_image
BufferFullStrict(size) == size > SHARD_SIZE_LIMIT

BufferFull(size) == size >= SHARD_SIZE_LIMIT

add_image(st, fs, image_bytes, artist_id, post_id, image_hash, read_ok) ==
    IF Seen(st, image_hash)
    THEN [st |-> st, fs |-> fs, ret |-> NoFlush]
    ELSE
      LET row == [image_bytes |-> image_bytes, artist_id |-> artist_id,
                  source |-> "danbooru", post_id |-> post_id, hash |-> image_hash,
                  size |-> Len(image_bytes)]
          st1 == [st EXCEPT !.buffer = Append(@, row),
                            !.seen_hashes = @ \cup {image_hash},
                            !.buffer_size_bytes = @ + Len(image_bytes)]
      IN IF BufferFull(st1.buffer_size_bytes)
         THEN flush(st1, fs, read_ok)
         ELSE [st |-> st1, fs |-> fs, ret |-> NoFlush]

close(st, fs, read_ok) == flush(st, fs, read_ok)

\* ------------------------------------------------- remote site and images

Posts == 1..NPosts
Artists == 1..NArtists

\* payload size, in units, of the processed image of post p
SizeOf(p) == IF p <= 2 THEN 1 ELSE p - 1

\* the bytes the remote serves for post p
RawImage(p) == [i \in 1..(2 * SizeOf(p)) |-> p]

\* a non-empty response body that is no decodable image
Corrupt == <<0>>

\* image_processor.process_image_bytes: resize and recompress, None on any error
process_image_bytes(image_bytes) ==
    IF image_bytes = <<>> \/ image_bytes[1] = 0
    THEN NoBytes
    ELSE SubSeq(image_bytes, 1, Len(image_bytes) \div 2)

\* a response body that is resized and recompressed, and whose output the
\* hash library cannot open
Unhashable == <<-1, -1>>

\* image_processor.calculate_hash: perceptual hash, None on any error
CalculateHashAlways(image_bytes) ==
    IF image_bytes = <<>> THEN None ELSE ToString(image_bytes[1] % 3)

calculate_hash(image_bytes) ==
    IF image_bytes = <<>> \/ image_bytes[1] <= 0
    THEN None
    ELSE ToString(image_bytes[1] % 3)

\* client.post_list(tags, page, limit): page `page` of the listing, newest
\* first; a listing is the sequence of its pages, empty past the last one
post_list(feed, page) == IF page <= Len(feed) THEN feed[page] ELSE <<>>

RECURSIVE Descending(_)
Descending(S) ==
    IF S = {} THEN <<>>
    ELSE LET m == MaxOf(S) IN <<m>> \o Descending(S \ {m})

\* the ways the remote may cut a listing into pages of 1..limit posts
RECURSIVE Pagings(_)
Pagings(posts) ==
    IF posts = <<>> THEN {<<>>}
    ELSE UNION {{<<SubSeq(posts, 1, k)>> \o rest :
                    rest \in Pagings(SubSeq(posts, k + 1, Len(posts)))} :
                k \in 1..(IF Len(posts) < PAGE_LIMIT THEN Len(posts) ELSE PAGE_LIMIT)}

\* the listings the remote may serve for a tag: posts in descending id order
Feeds == UNION {Pagings(Descending(S)) : S \in SUBSET Posts}

\* ---------------------------------------------------------------- catalog

\* offset column of row i (0-based) of a flush result
OffsetInBatch(start_offset, i) == i

OffsetOf(start_offset, i) == start_offset + i

RECURSIVE InsertRows(_, _, _, _)
InsertRows(d, flush_result, i, n) ==
    IF i >= n THEN d
    ELSE
      LET row == flush_result.rows[i + 1]
          image_id == Len(d.images) + 1
          image == [artist_id |-> row.artist_id, source |-> row.source,
                    post_id |-> row.post_id, hash |-> row.hash,
                    shard_file |-> flush_result.shard_file,
                    offset |-> OffsetOf(flush_result.start_offset, i),
                    size |-> row.size]
          index1 == IF row.hash \in DOMAIN d.hash_index
                    THEN d.hash_index
                    ELSE [h \in DOMAIN d.hash_index \cup {row.hash} |->
                            IF h = row.hash THEN image_id ELSE d.hash_index[h]]
      IN InsertRows([images |-> Append(d.images, image), hash_index |-> index1],
                    flush_result, i + 1, n)

\* AsyncScraper._update_db_from_flush, through its commit
_update_db_from_flush(d, flush_result) ==
    InsertRows(d, flush_result, 0, Len(flush_result.rows))

\* the hash_index lookup of process_post, made only when DEDUPLICATE_IMAGES
IsDuplicate(d, image_hash) ==
    DEDUPLICATE_IMAGES /\ image_hash \in DOMAIN d.hash_index

\* ----------------------------------------------------------------- viewer

get_image_data(cache, fs, shard_file, offset) ==
    IF shard_file \notin DOMAIN cache /\ shard_file \notin DOMAIN fs
    THEN [cache |-> cache, data |-> NoBytes]
    ELSE LET df == IF shard_file \notin DOMAIN cache THEN fs[shard_file]
                   ELSE cache[shard_file]
         IN [cache |-> [f \in DOMAIN cache \cup {shard_file} |->
                          IF f = shard_file THEN df ELSE cache[f]],
             data |-> IF offset < Len(df) THEN df[offset + 1].image_bytes ELSE NoBytes]

\* ------------------------------------------------------------------ state

EmptyMap == [k \in {} |-> 0]

IdlePass == [artist_id |-> 0, last_scraped_post |-> None, page |-> 0, posts_count |-> 0,
             new_last_post |-> None, feed |-> <<>>, hit_cursor |-> FALSE,
             download_failures |-> 0]

NoRun == [bytes |-> 0, flushes |-> 0, hashes |-> {}, distinct |-> TRUE,
          start_offset |-> 0, pre_rows |-> 0, pending |-> <<>>]

\* the shard a construction over directory fs made active, its rows then
ResumedAt(st, fs) ==
    [index |-> st.current_shard_index,
     rows |-> IF shard_filename(st.current_shard_index) \in DOMAIN fs
              THEN Len(fs[shard_filename(st.current_shard_index)]) ELSE 0,
     nflush |-> 0]

\* resumed, after a store call that returned result
FlushCounted(r, result) ==
    IF result = NoFlush \/ r.nflush = 2 THEN r ELSE [r EXCEPT !.nflush = @ + 1]

\* rows of shard file `name` on disk, none when the file does not exist
RowsOf(fs, name) == IF name \in DOMAIN fs THEN fs[name] ELSE <<>>

\* the scraper's connection outside _update_db_from_flush: nothing uncommitted
NoTransaction == [flush_result |-> NoFlush, i |-> 0,
                  pending |-> [images |-> <<>>, hash_index |-> EmptyMap]]

\* the local `artist` of Scheduler.run while no row is selected
NoRow == [last_checked |-> NULL, last_scraped_post |-> None, probability_weight |-> 0]

\* the scheduler process before asyncio.run(scheduler.run()), and after run()
\* was left
Stopped == [pc |-> "stopped", artist |-> 0, row |-> NoRow, last_post |-> None,
            list_failed |-> 0]

\* Scheduler.run at the top of its loop
Selecting == [pc |-> "select", artist |-> 0, row |-> NoRow, last_post |-> None,
              list_failed |-> 0]

\* the worker thread blocked in queue.get()
\* (`futures` are the download futures of the job in hand, `saved` the number
\* of files its downloads have written, `at_cancel` that number at the moment
\* the flag was set, -1 before)
Waiting == [pc |-> "get", job_id |-> 0, page |-> 0, futures |-> <<>>,
            max_workers |-> 0, saved |-> 0, at_cancel |-> -1]

\* no request thread is inside cancel_current_job; `asked` are the jobs that
\* requests found running and then set the flag for, `count` the requests made
NotCancelling == [pc |-> "idle", saw |-> 0, asked |-> {}, count |-> 0,
                  returned |-> None]

\* no download_image call has been made
NoDownload == [impl |-> "none", pc |-> "idle", attempt |-> 0, outcomes |-> <<>>,
               waits |-> <<>>, result |-> "pending"]

Init ==
    /\ files = EmptyMap
    /\ storage = ParquetStorage(EmptyMap)
    /\ db = [images |-> <<>>, hash_index |-> EmptyMap]
    /\ parquet_cache = EmptyMap
    /\ pc = "idle"
    /\ pass = IdlePass
    /\ tasks = EmptyMap
    /\ permits = concurrency_limit
    /\ pass_result = NoResult
    /\ ret = NoFlush
    /\ lastOp = [op |-> "init"]
    /\ lastRead = [id |-> 0, data |-> NoBytes]
    /\ written = <<>>
    /\ passAdded = {}
    /\ run = NoRun
    /\ resumed = ResumedAt(ParquetStorage(EmptyMap), EmptyMap)
    /\ passes = 0
    /\ restarts = 0
    /\ calls = 0
    /\ conn = NoTransaction
    /\ artists = EmptyMap
    /\ now = 0
    /\ scheduler = Stopped
    /\ jobs = EmptyMap
    /\ queue = <<>>
    /\ current_job_id = 0
    /\ stop_event = FALSE
    /\ worker = Waiting
    /\ canceller = NotCancelling
    /\ download = NoDownload

\* written, extended by the payloads of the rows a flush result records
Recorded(w, flush_result) ==
    w \o [i \in 1..Len(flush_result.rows) |-> flush_result.rows[i].image_bytes]

\* ------------------------------------------------- direct calls on a store

\* the run of consecutive add_image calls, after one more call
RunAfter(r, fs, post_id, image_bytes, image_hash, seen, result) ==
    [bytes |-> IF seen THEN r.bytes ELSE r.bytes + Len(image_bytes),
     flushes |-> IF result = NoFlush THEN r.flushes ELSE r.flushes + 1,
     hashes |-> r.hashes \cup {image_hash},
     distinct |-> r.distinct /\ image_hash \notin r.hashes,
     start_offset |-> IF result = NoFlush THEN r.start_offset ELSE result.start_offset,
     pre_rows |-> IF result = NoFlush THEN r.pre_rows
                  ELSE Len(RowsOf(fs, result.shard_file)),
     pending |-> IF result # NoFlush THEN <<>>
                 ELSE IF seen THEN r.pending ELSE Append(r.pending, post_id)]

AddImageCall(p, a, read_ok) ==
    /\ pc = "idle"
    /\ calls < MaxCalls
    /\ LET image_bytes == process_image_bytes(RawImage(p))
           image_hash == calculate_hash(image_bytes)
           r == add_image(storage, files, image_bytes, a, ToString(p), image_hash, read_ok)
       IN /\ storage' = r.st
          /\ files' = r.fs
          /\ ret' = r.ret
          /\ lastOp' = [op |-> "add_image", post |-> p,
                        seen |-> image_hash \in storage.seen_hashes,
                        read_ok |-> read_ok]
          /\ run' = RunAfter(run, files, ToString(p), image_bytes, image_hash,
                             image_hash \in storage.seen_hashes, r.ret)
          /\ resumed' = FlushCounted(resumed, r.ret)
    /\ calls' = calls + 1
    /\ UNCHANGED <<db, parquet_cache, pc, pass, tasks, permits, pass_result, lastRead,
                   written, passAdded, passes, restarts>>
    /\ UNCHANGED <<conn, schedVars, jobVars, download>>

FlushCall(read_ok) ==
    /\ pc = "idle"
    /\ calls < MaxCalls
    /\ LET r == flush(storage, files, read_ok)
       IN /\ storage' = r.st
          /\ files' = r.fs
          /\ ret' = r.ret
          /\ resumed' = FlushCounted(resumed, r.ret)
    /\ lastOp' = [op |-> "flush", read_ok |-> read_ok]
    /\ run' = NoRun
    /\ calls' = calls + 1
    /\ UNCHANGED <<db, parquet_cache, pc, pass, tasks, permits, pass_result, lastRead,
                   written, passAdded, passes, restarts>>
    /\ UNCHANGED <<conn, schedVars, jobVars, download>>

CloseCall(read_ok) ==
    /\ pc = "idle"
    /\ restarts < MaxRestarts
    /\ LET r == close(storage, files, read_ok)
       IN /\ storage' = r.st
          /\ files' = r.fs
          /\ ret' = r.ret
          /\ resumed' = FlushCounted(resumed, r.ret)
    /\ lastOp' = [op |-> "close", read_ok |-> read_ok]
    /\ run' = NoRun
    /\ pc' = "closed"
    /\ UNCHANGED <<db, parquet_cache, pass, tasks, permits, pass_result, lastRead,
                   written, passAdded, passes, restarts, calls>>
    /\ UNCHANGED <<conn, schedVars, jobVars, download>>

\* a new process constructs its ParquetStorage over the directory as it is
Construct ==
    /\ pc = "closed"
    /\ storage' = ParquetStorage(files)
    /\ resumed' = ResumedAt(ParquetStorage(files), files)
    /\ ret' = NoFlush
    /\ lastOp' = [op |-> "construct"]
    /\ run' = NoRun
    /\ pc' = "idle"
    /\ pass_result' = NoResult
    /\ restarts' = restarts + 1
    /\ UNCHANGED <<files, db, parquet_cache, pass, tasks, permits, lastRead,
                   written, passAdded, passes, calls>>
    /\ UNCHANGED <<conn, schedVars, jobVars, download>>

NextStore ==
    \/ \E p \in 1..NItems, a \in Artists, read_ok \in BOOLEAN : AddImageCall(p, a, read_ok)
    \/ \E read_ok \in BOOLEAN : FlushCall(read_ok)
    \/ \E read_ok \in BOOLEAN : CloseCall(read_ok)
    \/ Construct

SpecStore == Init /\ [][NextStore]_vars

\* ------------------------------------------------------------ AsyncScraper

\* if page == 1 and posts_count == 0
IsFirstOfPageOne(page, posts_count) == page = 1

IsFirstPost(page, posts_count) == page = 1 /\ posts_count = 0

\* the for loop of scrape_artist over one listed page: posts scheduled so far
RECURSIVE ForPostsInclusive(_, _, _)
ForPostsInclusive(posts, i, acc) ==
    IF i > Len(posts) THEN acc
    ELSE
      LET post_id == ToString(posts[i])
          next == [acc EXCEPT !.new_last_post =
                                 IF IsFirstPost(acc.page, acc.posts_count)
                                 THEN post_id ELSE @,
                              !.scheduled = Append(@, posts[i]),
                              !.posts_count = @ + 1]
      IN IF acc.last_scraped_post # None /\ post_id = acc.last_scraped_post
         THEN [next EXCEPT !.hit_cursor = TRUE]
         ELSE ForPostsInclusive(posts, i + 1, next)

RECURSIVE ForPosts(_, _, _)
ForPosts(posts, i, acc) ==
    IF i > Len(posts) THEN acc
    ELSE
      LET post_id == ToString(posts[i])
      IN IF acc.last_scraped_post # None /\ post_id = acc.last_scraped_post
         THEN [acc EXCEPT !.hit_cursor = TRUE]
         ELSE ForPosts(posts, i + 1,
                       [acc EXCEPT !.new_last_post =
                                      IF IsFirstPost(acc.page, acc.posts_count)
                                      THEN post_id ELSE @,
                                   !.scheduled = Append(@, posts[i]),
                                   !.posts_count = @ + 1])

Queued == [stage |-> "queued", data |-> NoBytes]
Finished == [stage |-> "done", data |-> NoBytes]

StartPass(a, cursor, feed) ==
    /\ pc = "idle"
    /\ passes < MaxPasses
    /\ pass' = [artist_id |-> a, last_scraped_post |-> cursor, page |-> 1,
                posts_count |-> 0, new_last_post |-> cursor, feed |-> feed,
                hit_cursor |-> FALSE, download_failures |-> 0]
    /\ pc' = "list"
    /\ pass_result' = NoResult
    /\ passAdded' = {}
    /\ passes' = passes + 1
    /\ lastOp' = [op |-> "scrape_artist"]
    /\ UNCHANGED <<storage, files, db, parquet_cache, tasks, permits, ret, lastRead,
                   written, run, resumed, restarts, calls>>
    /\ UNCHANGED <<conn, schedVars, jobVars, download>>

\* one turn of the while loop up to the gather: list a page, schedule its posts
ListPage(list_ok) ==
    /\ pc = "list"
    /\ LET posts == post_list(pass.feed, pass.page)
       IN IF ~list_ok \/ posts = <<>>
          THEN /\ pc' = "final"
               /\ UNCHANGED <<pass, tasks>>
          ELSE LET acc == ForPosts(posts, 1,
                                   [last_scraped_post |-> pass.last_scraped_post,
                                    page |-> pass.page,
                                    posts_count |-> pass.posts_count,
                                    new_last_post |-> pass.new_last_post,
                                    scheduled |-> <<>>, hit_cursor |-> FALSE])
               IN /\ pass' = [pass EXCEPT !.posts_count = acc.posts_count,
                                          !.new_last_post = acc.new_last_post,
                                          !.hit_cursor = acc.hit_cursor]
                  /\ tasks' = [p \in {acc.scheduled[i] : i \in 1..Len(acc.scheduled)}
                                 |-> Queued]
                  /\ pc' = "gather"
    /\ lastOp' = [op |-> "post_list", list_ok |-> list_ok]
    /\ UNCHANGED <<storage, files, db, parquet_cache, permits, pass_result, ret,
                   lastRead, written, passAdded, run, resumed, passes, restarts, calls>>
    /\ UNCHANGED <<conn, schedVars, jobVars, download>>

\* process_post up to the download: pick the URL, take a permit
AcquireNoPermit(p, has_url) ==
    /\ pc = "gather"
    /\ p \in DOMAIN tasks
    /\ tasks[p].stage = "queued"
    /\ tasks' = [tasks EXCEPT ![p] = IF ~has_url THEN Finished
                                     ELSE [stage |-> "downloading", data |-> NoBytes]]
    /\ UNCHANGED <<storage, files, db, parquet_cache, pc, pass, permits, pass_result, ret,
                   lastOp, lastRead, written, passAdded, run, resumed, passes, restarts,
                   calls>>
    /\ UNCHANGED <<conn, schedVars, jobVars, download>>

AcquirePermit(p, has_url) ==
    /\ pc = "gather"
    /\ p \in DOMAIN tasks
    /\ tasks[p].stage = "queued"
    /\ IF ~has_url
       THEN /\ tasks' = [tasks EXCEPT ![p] = Finished]
            /\ UNCHANGED permits
       ELSE /\ permits > 0
            /\ permits' = permits - 1
            /\ tasks' = [tasks EXCEPT ![p] = [stage |-> "downloading", data |-> NoBytes]]
    /\ UNCHANGED <<storage, files, db, parquet_cache, pc, pass, pass_result, ret, lastOp,
                   lastRead, written, passAdded, run, resumed, passes, restarts, calls>>
    /\ UNCHANGED <<conn, schedVars, jobVars, download>>

\* download_image returns and the permit is released
Download(p, image_bytes) ==
    /\ pc = "gather"
    /\ p \in DOMAIN tasks
    /\ tasks[p].stage = "downloading"
    /\ permits' = permits + 1
    /\ tasks' = [tasks EXCEPT ![p] =
                    IF image_bytes = NoBytes THEN Finished
                    ELSE [stage |-> "processing", data |-> image_bytes]]
    /\ pass' = [pass EXCEPT !.download_failures =
                            IF image_bytes = NoBytes THEN @ + 1 ELSE @]
    /\ UNCHANGED <<storage, files, db, parquet_cache, pc, pass_result, ret, lastOp,
                   lastRead, written, passAdded, run, resumed, passes, restarts, calls>>
    /\ UNCHANGED <<conn, schedVars, jobVars, download>>

\* process_image_bytes returns from the executor
ProcessImage(p) ==
    /\ pc = "gather"
    /\ p \in DOMAIN tasks
    /\ tasks[p].stage = "processing"
    /\ LET compressed_bytes == process_image_bytes(tasks[p].data)
       IN tasks' = [tasks EXCEPT ![p] =
                       IF compressed_bytes = NoBytes THEN Finished
                       ELSE [stage |-> "hashing", data |-> compressed_bytes]]
    /\ UNCHANGED <<storage, files, db, parquet_cache, pc, pass, permits, pass_result, ret,
                   lastOp, lastRead, written, passAdded, run, resumed, passes, restarts,
                   calls>>
    /\ UNCHANGED <<conn, schedVars, jobVars, download>>

\* calculate_hash returns from the executor; the rest of process_post runs
\* without a suspension point: dedup lookup, add_image, catalog rows of a flush
StoreImage(p, read_ok) ==
    /\ pc = "gather"
    /\ p \in DOMAIN tasks
    /\ tasks[p].stage = "hashing"
    /\ LET compressed_bytes == tasks[p].data
           image_hash == calculate_hash(compressed_bytes)
           r == add_image(storage, files, compressed_bytes, pass.artist_id,
                          ToString(p), image_hash, read_ok)
       IN IF image_hash = None \/ IsDuplicate(db, image_hash)
          THEN UNCHANGED <<storage, files, db, ret, lastOp, written, passAdded, resumed>>
          ELSE /\ storage' = r.st
               /\ files' = r.fs
               /\ ret' = r.ret
               /\ resumed' = FlushCounted(resumed, r.ret)
               /\ lastOp' = [op |-> "add_image", post |-> p,
                             seen |-> image_hash \in storage.seen_hashes,
                             read_ok |-> read_ok]
               /\ passAdded' = IF image_hash \in storage.seen_hashes
                               THEN passAdded ELSE passAdded \cup {ToString(p)}
               /\ IF r.ret # NoFlush
                  THEN /\ db' = _update_db_from_flush(db, r.ret)
                       /\ written' = Recorded(written, r.ret)
                  ELSE UNCHANGED <<db, written>>
    /\ tasks' = [tasks EXCEPT ![p] = Finished]
    /\ UNCHANGED <<parquet_cache, pc, pass, permits, pass_result, lastRead, run,
                   passes, restarts, calls>>
    /\ UNCHANGED <<conn, schedVars, jobVars, download>>

\* asyncio.gather returns: next page, or the return at the stored cursor
GatherDone ==
    /\ pc = "gather"
    /\ \A p \in DOMAIN tasks : tasks[p].stage = "done"
    /\ tasks' = EmptyMap
    /\ IF pass.hit_cursor
       THEN /\ pass_result' = pass.new_last_post
            /\ pass' = IdlePass
            /\ pc' = "idle"
            /\ lastOp' = [op |-> "return", at |-> "cursor",
                          cursor |-> pass.last_scraped_post, page |-> pass.page]
       ELSE /\ pass' = [pass EXCEPT !.page = @ + 1]
            /\ pc' = "list"
            /\ UNCHANGED <<pass_result, lastOp>>
    /\ UNCHANGED <<storage, files, db, parquet_cache, permits, ret, lastRead, written,
                   passAdded, run, resumed, passes, restarts, calls>>
    /\ UNCHANGED <<conn, schedVars, jobVars, download>>

\* the final flush of scrape_artist, its catalog rows, and the return
FinalFlush(read_ok) ==
    /\ pc = "final"
    /\ LET r == flush(storage, files, read_ok)
       IN /\ storage' = r.st
          /\ files' = r.fs
          /\ ret' = r.ret
          /\ resumed' = FlushCounted(resumed, r.ret)
          /\ IF r.ret # NoFlush
             THEN /\ db' = _update_db_from_flush(db, r.ret)
                  /\ written' = Recorded(written, r.ret)
             ELSE UNCHANGED <<db, written>>
    /\ pass_result' = pass.new_last_post
    /\ pass' = IdlePass
    /\ pc' = "idle"
    /\ lastOp' = [op |-> "return", at |-> "end",
                  cursor |-> pass.last_scraped_post, page |-> pass.page]
    /\ UNCHANGED <<parquet_cache, tasks, permits, lastRead, passAdded, run,
                   passes, restarts, calls>>
    /\ UNCHANGED <<conn, schedVars, jobVars, download>>

\* AsyncScraper.close: the connection is closed, then storage.close() flushes
\* and its result is dropped
ScraperClose(read_ok) ==
    /\ pc = "idle"
    /\ restarts < MaxRestarts
    /\ LET r == close(storage, files, read_ok)
       IN /\ storage' = r.st
          /\ files' = r.fs
          /\ ret' = r.ret
          /\ resumed' = FlushCounted(resumed, r.ret)
    /\ lastOp' = [op |-> "close", read_ok |-> read_ok]
    /\ pc' = "closed"
    /\ UNCHANGED <<db, parquet_cache, pass, tasks, permits, pass_result, lastRead,
                   written, passAdded, run, passes, restarts, calls>>
    /\ UNCHANGED <<conn, schedVars, jobVars, download>>

\* viewer.get_image: look the row up in the catalog, read the shard
GetImage(image_id) ==
    /\ image_id \in DOMAIN db.images
    /\ LET r == get_image_data(parquet_cache, files, db.images[image_id].shard_file,
                               db.images[image_id].offset)
       IN /\ parquet_cache' = r.cache
          /\ lastRead' = [id |-> image_id, data |-> r.data]
    /\ UNCHANGED <<storage, files, db, pc, pass, tasks, permits, pass_result, ret, lastOp,
                   written, passAdded, run, resumed, passes, restarts, calls>>
    /\ UNCHANGED <<conn, schedVars, jobVars, download>>

Cursors == {None} \cup {ToString(p) : p \in Posts}

Next ==
    \/ \E a \in Artists, cursor \in Cursors, feed \in Feeds : StartPass(a, cursor, feed)
    \/ \E list_ok \in BOOLEAN : ListPage(list_ok)
    \/ \E p \in Posts, has_url \in BOOLEAN : AcquirePermit(p, has_url)
    \/ \E p \in Posts :
          \E image_bytes \in {NoBytes, Corrupt, Unhashable, RawImage(p)} :
             Download(p, image_bytes)
    \/ \E p \in Posts : ProcessImage(p)
    \/ \E p \in Posts, read_ok \in BOOLEAN : StoreImage(p, read_ok)
    \/ GatherDone
    \/ \E read_ok \in BOOLEAN : FinalFlush(read_ok)
    \/ \E read_ok \in BOOLEAN : ScraperClose(read_ok)
    \/ Construct
    \/ \E image_id \in 1..Len(db.images) : GetImage(image_id)

Spec == Init /\ [][Next]_vars

\* ------------------------------------- one pass over a page of many posts

\* the posts of a listing whose first page is as long as the limit allows
ListedPosts == 1..NQueued

\* a listing cut into pages that are as long as the limit allows
RECURSIVE FullPages(_)
FullPages(posts) ==
    IF Len(posts) <= PAGE_LIMIT THEN <<posts>>
    ELSE <<SubSeq(posts, 1, PAGE_LIMIT)>>
           \o FullPages(SubSeq(posts, PAGE_LIMIT + 1, Len(posts)))

LongFeed == FullPages(Descending(ListedPosts))

NextGather ==
    \/ passes = 0 /\ \E a \in Artists : StartPass(a, None, LongFeed)
    \/ \E list_ok \in BOOLEAN : ListPage(list_ok)
    \/ \E p \in ListedPosts, has_url \in BOOLEAN : AcquirePermit(p, has_url)
    \/ \E p \in ListedPosts : \E image_bytes \in {NoBytes, Corrupt, RawImage(p)} :
          Download(p, image_bytes)
    \/ \E p \in ListedPosts : ProcessImage(p)
    \/ \E p \in ListedPosts, read_ok \in BOOLEAN : StoreImage(p, read_ok)
    \/ GatherDone
    \/ \E read_ok \in BOOLEAN : FinalFlush(read_ok)

SpecGather == Init /\ [][NextGather]_vars

\* ------------------------------------------- catalog writes, statement by
\* statement: the scraper's connection against a reader's connection

\* a flush result has been returned and AsyncScraper is about to record it
UpdateDue == ret # NoFlush /\ lastOp.op \in {"add_image", "flush"}

InUpdate == conn.flush_result # NoFlush

\* what a SELECT on another connection (the viewer's) returns: sqlite shows a
\* reader the committed rows only
VisibleUncommitted(committed, c) ==
    IF c.flush_result # NoFlush THEN c.pending ELSE committed

Visible(committed, c) == committed

\* process_post: the add_image call whose result _update_db_from_flush records
CatalogAddImage(p, a, read_ok) ==
    /\ ~UpdateDue /\ ~InUpdate
    /\ AddImageCall(p, a, read_ok)

\* scrape_artist: the final flush whose result _update_db_from_flush records
CatalogFlush(read_ok) ==
    /\ ~UpdateDue /\ ~InUpdate
    /\ FlushCall(read_ok)

\* _update_db_from_flush is entered with the flush result
BeginUpdate ==
    /\ UpdateDue /\ ~InUpdate
    /\ conn' = [flush_result |-> ret, i |-> 0, pending |-> db]
    /\ lastOp' = [op |-> "_update_db_from_flush"]
    /\ UNCHANGED <<storage, files, db, parquet_cache, pc, pass, tasks, permits,
                   pass_result, ret, lastRead, written, passAdded, run, resumed,
                   passes, restarts, calls>>
    /\ UNCHANGED <<schedVars, jobVars, download>>

\* one turn of its for loop: INSERT INTO images, INSERT OR IGNORE INTO
\* hash_index, both inside the connection's open transaction
InsertRow ==
    /\ InUpdate
    /\ conn.i < Len(conn.flush_result.rows)
    /\ conn' = [conn EXCEPT !.pending = InsertRows(@, conn.flush_result, conn.i, conn.i + 1),
                            !.i = @ + 1]
    /\ lastOp' = [op |-> "insert"]
    /\ UNCHANGED <<storage, files, db, parquet_cache, pc, pass, tasks, permits,
                   pass_result, ret, lastRead, written, passAdded, run, resumed,
                   passes, restarts, calls>>
    /\ UNCHANGED <<schedVars, jobVars, download>>

\* self.db.conn.commit() after the loop
Commit ==
    /\ InUpdate
    /\ conn.i = Len(conn.flush_result.rows)
    /\ db' = conn.pending
    /\ conn' = NoTransaction
    /\ lastOp' = [op |-> "commit", rows |-> conn.i, before |-> Len(db.images)]
    /\ UNCHANGED <<storage, files, parquet_cache, pc, pass, tasks, permits,
                   pass_result, ret, lastRead, written, passAdded, run, resumed,
                   passes, restarts, calls>>
    /\ UNCHANGED <<schedVars, jobVars, download>>

\* an execute raises an sqlite3 error that is no IntegrityError: it leaves
\* _update_db_from_flush, scrape_artist and Scheduler.run, whose finally
\* closes the connection (uncommitted rows are rolled back) and the storage
UpdateRaises(read_ok) ==
    /\ InUpdate
    /\ conn.i < Len(conn.flush_result.rows)
    /\ restarts < MaxRestarts
    /\ conn' = NoTransaction
    /\ LET r == close(storage, files, read_ok)
       IN /\ storage' = r.st
          /\ files' = r.fs
          /\ ret' = r.ret
          /\ resumed' = FlushCounted(resumed, r.ret)
    /\ lastOp' = [op |-> "raise", read_ok |-> read_ok]
    /\ run' = NoRun
    /\ pc' = "closed"
    /\ UNCHANGED <<db, parquet_cache, pass, tasks, permits, pass_result, lastRead,
                   written, passAdded, passes, restarts, calls>>
    /\ UNCHANGED <<schedVars, jobVars, download>>

NextCatalog ==
    \/ \E p \in 1..NItems, a \in Artists, read_ok \in BOOLEAN : CatalogAddImage(p, a, read_ok)
    \/ \E read_ok \in BOOLEAN : CatalogFlush(read_ok)
    \/ BeginUpdate
    \/ InsertRow
    \/ Commit
    \/ \E read_ok \in BOOLEAN : UpdateRaises(read_ok)
    \/ Construct

SpecCatalog == Init /\ [][NextCatalog]_vars

\* --------------------------------------------------------------- Scheduler

\* new_weight * 1.1 and new_weight * 0.9, rounded to the nearest thousandth
TimesOnePointOne(w) == (w * 11 + 5) \div 10
TimesPointNine(w) == (w * 9 + 5) \div 10

\* min(new_weight * 1.1, 100.0)
RaisedUncapped(w) == TimesOnePointOne(w)

Raised(w) ==
    IF TimesOnePointOne(w) < WEIGHT_CAP THEN TimesOnePointOne(w) ELSE WEIGHT_CAP

\* max(new_weight * 0.9, 0.1)
Lowered(w) ==
    IF TimesPointNine(w) > WEIGHT_FLOOR THEN TimesPointNine(w) ELSE WEIGHT_FLOOR

\* if last_post and last_post != artist['last_scraped_post']
FoundAny(last_post, last_scraped_post) == last_post # None

FoundNew(last_post, last_scraped_post) ==
    last_post # None /\ last_post # last_scraped_post

\* datetime.now() - last_checked < timedelta(minutes=self.cooldown_minutes)
NeverOnCooldown(last_checked, t) == FALSE

OnCooldown(last_checked, t) ==
    last_checked # NULL /\ t - last_checked[1] < cooldown_minutes

\* the rows select_artist keeps in available_artists
Available(table, t) ==
    {a \in DOMAIN table : ~OnCooldown(table[a].last_checked, t)}

\* Scheduler.select_artist: "empty", "cooldown", or any available row, each
\* having a positive weight in random.choices
select_artist(table, t) ==
    IF DOMAIN table = {} THEN {[kind |-> "empty", id |-> 0]}
    ELSE IF Available(table, t) = {} THEN {[kind |-> "cooldown", id |-> 0]}
    ELSE {[kind |-> "selected", id |-> a] : a \in Available(table, t)}

\* INSERT INTO artists: the next AUTOINCREMENT id gets the row
InsertArtist(table, row) ==
    [a \in DOMAIN table \cup {Cardinality(DOMAIN table) + 1} |->
        IF a \in DOMAIN table THEN table[a] ELSE row]

\* UPDATE artists SET last_checked, last_scraped_post, probability_weight
\* WHERE id = ?
UpdateEveryRow(table, id, last_checked, last_scraped_post, probability_weight) ==
    [a \in DOMAIN table |->
        [last_checked |-> last_checked, last_scraped_post |-> last_scraped_post,
         probability_weight |-> probability_weight]]

UpdateWhereId(table, id, last_checked, last_scraped_post, probability_weight) ==
    [a \in DOMAIN table |->
        IF a = id
        THEN [last_checked |-> last_checked, last_scraped_post |-> last_scraped_post,
              probability_weight |-> probability_weight]
        ELSE table[a]]

\* what scrape_artist returns: new_last_post after the first page it listed
scrape_artist(last_scraped_post, feed, list_ok) ==
    IF ~list_ok \/ post_list(feed, 1) = <<>> THEN last_scraped_post
    ELSE ForPosts(post_list(feed, 1), 1,
                  [last_scraped_post |-> last_scraped_post, page |-> 1,
                   posts_count |-> 0, new_last_post |-> last_scraped_post,
                   scheduled |-> <<>>, hit_cursor |-> FALSE]).new_last_post

\* the pass lists the given page: page 1 always, page 2 when page 1 had posts
\* and none of them was the cursor
ListsPage(last_scraped_post, feed, page) ==
    \/ page = 1
    \/ /\ page = 2
       /\ post_list(feed, 1) # <<>>
       /\ ~ForPosts(post_list(feed, 1), 1,
                    [last_scraped_post |-> last_scraped_post, page |-> 1,
                     posts_count |-> 0, new_last_post |-> last_scraped_post,
                     scheduled |-> <<>>, hit_cursor |-> FALSE]).hit_cursor

\* the pages whose listing may raise in a pass; 0 stands for none
FailedPages == {0, 1, 2}

\* a weight after n passes that found nothing, and after n that found new posts
RECURSIVE LoweredTimes(_, _)
LoweredTimes(w, n) == IF n = 0 THEN w ELSE LoweredTimes(Lowered(w), n - 1)

RECURSIVE RaisedTimes(_, _)
RaisedTimes(w, n) == IF n = 0 THEN w ELSE RaisedTimes(Raised(w), n - 1)

\* weights that earlier runs of the scheduler have left in a row: one and
\* two passes away from the floor and from the cap
EarlierWeights ==
    {LoweredTimes(WEIGHT_DEFAULT, 20), LoweredTimes(WEIGHT_DEFAULT, 21),
     RaisedTimes(WEIGHT_FAVORITE, 23), RaisedTimes(WEIGHT_FAVORITE, 24)}

\* Database.add_artist, from seed_db
AddArtist(favorite) ==
    /\ Cardinality(DOMAIN artists) < MaxSources
    /\ artists' = InsertArtist(artists,
                      [last_checked |-> <<now>>, last_scraped_post |-> None,
                       probability_weight |-> IF favorite THEN WEIGHT_FAVORITE
                                              ELSE WEIGHT_DEFAULT])
    /\ UNCHANGED <<now, scheduler, pipelineVars, conn, jobVars, download>>

\* the viewer's add_artist: the column defaults, last_checked NULL
ViewerAddArtist ==
    /\ Cardinality(DOMAIN artists) < MaxSources
    /\ artists' = InsertArtist(artists,
                      [last_checked |-> NULL, last_scraped_post |-> None,
                       probability_weight |-> WEIGHT_DEFAULT])
    /\ UNCHANGED <<now, scheduler, pipelineVars, conn, jobVars, download>>

\* a row of hoard.db as earlier runs of the scheduler left it, last checked a
\* cooldown window ago
EarlierArtist(w, last_scraped_post) ==
    /\ scheduler.pc = "stopped"
    /\ Cardinality(DOMAIN artists) < MaxSources
    /\ artists' = InsertArtist(artists,
                      [last_checked |-> <<now - cooldown_minutes>>,
                       last_scraped_post |-> last_scraped_post,
                       probability_weight |-> w])
    /\ UNCHANGED <<now, scheduler, pipelineVars, conn, jobVars, download>>

\* the wall clock advances
Tick ==
    /\ now < MaxTime
    /\ now' = now + 1
    /\ UNCHANGED <<artists, scheduler, pipelineVars, conn, jobVars, download>>

\* asyncio.run(scheduler.run()) in a new process
SchedulerStart ==
    /\ scheduler.pc = "stopped"
    /\ scheduler' = Selecting
    /\ UNCHANGED <<artists, now, pipelineVars, conn, jobVars, download>>

\* the head of the while loop: select_artist, then sleep or start a pass
SelectArtist ==
    /\ scheduler.pc = "select"
    /\ \E r \in select_artist(artists, now) :
          scheduler' = IF r.kind = "selected"
                       THEN [pc |-> "scrape", artist |-> r.id, row |-> artists[r.id],
                             last_post |-> None, list_failed |-> 0]
                       ELSE [pc |-> "sleep", artist |-> 0, row |-> NoRow,
                             last_post |-> None, list_failed |-> 0]
    /\ UNCHANGED <<artists, now, pipelineVars, conn, jobVars, download>>

\* await self.scraper.scrape_artist(...) returns
\* (failed_page: the page whose listing raises, 0 when none does)
ScrapeReturns(feed, failed_page) ==
    /\ scheduler.pc = "scrape"
    /\ scheduler' = [scheduler EXCEPT
                        !.pc = "update",
                        !.last_post = scrape_artist(scheduler.row.last_scraped_post,
                                                    feed, failed_page # 1),
                        !.list_failed =
                            IF ListsPage(scheduler.row.last_scraped_post, feed,
                                         failed_page)
                            THEN failed_page ELSE 0]
    /\ UNCHANGED <<artists, now, pipelineVars, conn, jobVars, download>>

\* it raises instead: run() is left through its finally and the process ends
ScrapeRaises ==
    /\ scheduler.pc = "scrape"
    /\ scheduler' = Stopped
    /\ UNCHANGED <<artists, now, pipelineVars, conn, jobVars, download>>

\* "Update Stats": the new weight, the UPDATE and its commit
UpdateStats ==
    /\ scheduler.pc = "update"
    /\ LET artist == scheduler.row
           last_post == scheduler.last_post
           new_weight == IF FoundNew(last_post, artist.last_scraped_post)
                         THEN Raised(artist.probability_weight)
                         ELSE Lowered(artist.probability_weight)
       IN artists' = UpdateWhereId(artists, scheduler.artist, <<now>>,
                                   IF last_post # None THEN last_post
                                   ELSE artist.last_scraped_post,
                                   new_weight)
    /\ scheduler' = [scheduler EXCEPT !.pc = "pause"]
    /\ UNCHANGED <<now, pipelineVars, conn, jobVars, download>>

\* asyncio.sleep returns: back to the head of the loop
WakeUp ==
    /\ scheduler.pc \in {"sleep", "pause"}
    /\ scheduler' = Selecting
    /\ UNCHANGED <<artists, now, pipelineVars, conn, jobVars, download>>

FirstPages == {feed \in Feeds : Len(feed) <= 1}

NextSched ==
    \/ \E favorite \in BOOLEAN : AddArtist(favorite)
    \/ ViewerAddArtist
    \/ \E w \in EarlierWeights, c \in Cursors : EarlierArtist(w, c)
    \/ Tick
    \/ SchedulerStart
    \/ SelectArtist
    \/ \E feed \in FirstPages, failed_page \in FailedPages :
          ScrapeReturns(feed, failed_page)
    \/ ScrapeRaises
    \/ UpdateStats
    \/ WakeUp

SpecSched == Init /\ [][NextSched]_vars

\* -------------------------------------------------------------- JobManager

\* queue.Queue.get(): the item put first
DequeueLast(q) == [item |-> q[Len(q)], rest |-> SubSeq(q, 1, Len(q) - 1)]

Dequeue(q) == [item |-> q[1], rest |-> Tail(q)]

\* progress_callback: self.jobs[job_id].update(status_data)
progress_callback(js, job_id, status) == [js EXCEPT ![job_id].status = status]

\* add_job up to queue.put: the job dict is stored under a fresh id
AddJobStore(force) ==
    /\ Cardinality(DOMAIN jobs) < MaxJobs
    /\ jobs' = [j \in DOMAIN jobs \cup {Cardinality(DOMAIN jobs) + 1} |->
                  IF j \in DOMAIN jobs THEN jobs[j]
                  ELSE [status |-> "pending", force |-> force, put |-> 0,
                        error |-> None, completed_at |-> NULL]]
    /\ UNCHANGED <<queue, current_job_id, stop_event, worker, canceller>>
    /\ UNCHANGED <<pipelineVars, conn, schedVars, download>>

\* self.queue.put(job_id); `put` numbers the jobs in the order they were put
AddJobPut(job_id) ==
    /\ job_id \in DOMAIN jobs
    /\ jobs[job_id].put = 0
    /\ queue' = Append(queue, job_id)
    /\ jobs' = [jobs EXCEPT ![job_id].put =
                    Cardinality({j \in DOMAIN jobs : jobs[j].put > 0}) + 1]
    /\ UNCHANGED <<current_job_id, stop_event, worker, canceller>>
    /\ UNCHANGED <<pipelineVars, conn, schedVars, download>>

\* cancel_current_job: `if self.current_job_id`, and `return False`
CancelCheckAlways ==
    /\ canceller.pc = "idle"
    /\ canceller.count < MaxCancels
    /\ canceller' = [canceller EXCEPT !.pc = "set", !.saw = current_job_id,
                                      !.count = @ + 1]
    /\ UNCHANGED <<jobs, queue, current_job_id, stop_event, worker>>
    /\ UNCHANGED <<pipelineVars, conn, schedVars, download>>

CancelCheck ==
    /\ canceller.pc = "idle"
    /\ canceller.count < MaxCancels
    /\ canceller' = IF current_job_id # 0
                    THEN [canceller EXCEPT !.pc = "set", !.saw = current_job_id,
                                           !.count = @ + 1]
                    ELSE [canceller EXCEPT !.count = @ + 1, !.returned = "False"]
    /\ UNCHANGED <<jobs, queue, current_job_id, stop_event, worker>>
    /\ UNCHANGED <<pipelineVars, conn, schedVars, download>>

\* cancel_current_job: `self.stop_event.set()` and `return True`
CancelSet ==
    /\ canceller.pc = "set"
    /\ stop_event' = TRUE
    /\ canceller' = [canceller EXCEPT !.pc = "idle", !.saw = 0,
                                      !.asked = @ \cup {canceller.saw},
                                      !.returned = "True"]
    /\ worker' = IF worker.futures # <<>> /\ worker.at_cancel = -1
                 THEN [worker EXCEPT !.at_cancel = worker.saved]
                 ELSE worker
    /\ UNCHANGED <<jobs, queue, current_job_id>>
    /\ UNCHANGED <<pipelineVars, conn, schedVars, download>>

\* _worker: job_id = self.queue.get()
WorkerGet ==
    /\ worker.pc = "get"
    /\ queue # <<>>
    /\ worker' = [worker EXCEPT !.pc = "assign", !.job_id = Dequeue(queue).item]
    /\ queue' = Dequeue(queue).rest
    /\ UNCHANGED <<jobs, current_job_id, stop_event, canceller>>
    /\ UNCHANGED <<pipelineVars, conn, schedVars, download>>

\* self.current_job_id = job_id
WorkerAssign ==
    /\ worker.pc = "assign"
    /\ current_job_id' = worker.job_id
    /\ worker' = [worker EXCEPT !.pc = "clear"]
    /\ UNCHANGED <<jobs, queue, stop_event, canceller>>
    /\ UNCHANGED <<pipelineVars, conn, schedVars, download>>

\* self.stop_event.clear()
WorkerClear ==
    /\ worker.pc = "clear"
    /\ stop_event' = FALSE
    /\ worker' = [worker EXCEPT !.pc = "start"]
    /\ UNCHANGED <<jobs, queue, current_job_id, canceller>>
    /\ UNCHANGED <<pipelineVars, conn, schedVars, download>>

\* job['status'] = 'running'
WorkerStart ==
    /\ worker.pc = "start"
    /\ jobs' = [jobs EXCEPT ![worker.job_id].status = "running"]
    /\ worker' = [worker EXCEPT !.pc = "exists"]
    /\ UNCHANGED <<queue, current_job_id, stop_event, canceller>>
    /\ UNCHANGED <<pipelineVars, conn, schedVars, download>>

\* process_job: `if os.path.exists(save_dir) and not force`
ProcessJobExists(dir_exists) ==
    /\ worker.pc = "exists"
    /\ IF dir_exists /\ ~jobs[worker.job_id].force
       THEN /\ jobs' = progress_callback(jobs, worker.job_id, "skipped")
            /\ worker' = [worker EXCEPT !.pc = "ensure"]
       ELSE /\ jobs' = jobs
            /\ worker' = [worker EXCEPT !.pc = "makedirs"]
    /\ UNCHANGED <<queue, current_job_id, stop_event, canceller>>
    /\ UNCHANGED <<pipelineVars, conn, schedVars, download>>

\* os.makedirs and the first callback; an OSError leaves process_job and is
\* caught by _worker, which sets the status to failed
ProcessJobMakedirsUncaught(ok) ==
    /\ worker.pc = "makedirs"
    /\ IF ok
       THEN /\ jobs' = progress_callback(jobs, worker.job_id, "fetching_metadata")
            /\ worker' = [worker EXCEPT !.pc = "page_check", !.page = 1]
       ELSE /\ jobs' = jobs
            /\ worker' = [worker EXCEPT !.pc = "dead"]
    /\ UNCHANGED <<queue, current_job_id, stop_event, canceller>>
    /\ UNCHANGED <<pipelineVars, conn, schedVars, download>>

ProcessJobMakedirs(ok) ==
    /\ worker.pc = "makedirs"
    /\ IF ok
       THEN /\ jobs' = progress_callback(jobs, worker.job_id, "fetching_metadata")
            /\ worker' = [worker EXCEPT !.pc = "page_check", !.page = 1]
       ELSE /\ jobs' = [jobs EXCEPT ![worker.job_id].status = "failed",
                                    ![worker.job_id].error = "OSError"]
            /\ worker' = [worker EXCEPT !.pc = "finally"]
    /\ UNCHANGED <<queue, current_job_id, stop_event, canceller>>
    /\ UNCHANGED <<pipelineVars, conn, schedVars, download>>

\* the stop_event check at the head of the metadata loop
ProcessJobPageCheck ==
    /\ worker.pc = "page_check"
    /\ IF stop_event
       THEN /\ jobs' = progress_callback(jobs, worker.job_id, "cancelled")
            /\ worker' = [worker EXCEPT !.pc = "ensure"]
       ELSE /\ jobs' = jobs
            /\ worker' = [worker EXCEPT !.pc = "page_fetch"]
    /\ UNCHANGED <<queue, current_job_id, stop_event, canceller>>
    /\ UNCHANGED <<pipelineVars, conn, schedVars, download>>

\* post_list for one page: posts and the callback, or the break on an empty
\* page or an error
ProcessJobPageFetch(more) ==
    /\ worker.pc = "page_fetch"
    /\ IF more /\ worker.page <= MaxListPages
       THEN /\ jobs' = progress_callback(jobs, worker.job_id, "fetching_metadata")
            /\ worker' = [worker EXCEPT !.pc = "page_check", !.page = @ + 1]
       ELSE /\ jobs' = jobs
            /\ worker' = [worker EXCEPT !.pc = "downloading"]
    /\ UNCHANGED <<queue, current_job_id, stop_event, canceller>>
    /\ UNCHANGED <<pipelineVars, conn, schedVars, download>>

\* MAX_WORKERS on a machine with the given os.cpu_count()
MAX_WORKERS(cpus) == IF (cpus * 2) \div 3 < 1 THEN 1 ELSE (cpus * 2) \div 3

\* the futures of the job in hand that are in the given state
FuturesIn(state) == {i \in DOMAIN worker.futures : worker.futures[i] = state}

\* the "downloading" callback with n download items, then the executor and
\* executor.submit for every item
ProcessJobDownloading(n, cpus) ==
    /\ worker.pc = "downloading"
    /\ jobs' = progress_callback(jobs, worker.job_id, "downloading")
    /\ worker' = [worker EXCEPT !.pc = IF n = 0 THEN "completed" ELSE "future_check",
                                !.futures = [i \in 1..n |-> "pending"],
                                !.max_workers = MAX_WORKERS(cpus)]
    /\ UNCHANGED <<queue, current_job_id, stop_event, canceller>>
    /\ UNCHANGED <<pipelineVars, conn, schedVars, download>>

\* a pool thread takes the oldest work item off the executor's queue and
\* calls download_image for it
ExecutorStart(i) ==
    /\ i \in FuturesIn("pending")
    /\ \A k \in FuturesIn("pending") : i <= k
    /\ Cardinality(FuturesIn("running")) < worker.max_workers
    /\ worker' = [worker EXCEPT !.futures[i] = "running"]
    /\ UNCHANGED <<jobs, queue, current_job_id, stop_event, canceller>>
    /\ UNCHANGED <<pipelineVars, conn, schedVars, download>>

\* download_image returns in its pool thread: True with the file written,
\* False when the file existed or every attempt failed
ExecutorFinish(i, downloaded) ==
    /\ i \in FuturesIn("running")
    /\ worker' = [worker EXCEPT !.futures[i] = "done",
                                !.saved = IF downloaded THEN @ + 1 ELSE @]
    /\ UNCHANGED <<jobs, queue, current_job_id, stop_event, canceller>>
    /\ UNCHANGED <<pipelineVars, conn, schedVars, download>>

\* as_completed yields a finished future and stop_event is checked: when set,
\* shutdown(cancel_futures=True) cancels the futures not yet started
ProcessJobFutureCheck ==
    /\ worker.pc = "future_check"
    /\ FuturesIn("done") # {}
    /\ IF stop_event
       THEN /\ jobs' = progress_callback(jobs, worker.job_id, "cancelled")
            /\ worker' = [worker EXCEPT
                             !.pc = "shutdown",
                             !.futures = [i \in DOMAIN worker.futures |->
                                            IF worker.futures[i] = "pending"
                                            THEN "cancelled" ELSE worker.futures[i]]]
       ELSE /\ jobs' = jobs
            /\ worker' = [worker EXCEPT !.pc = "future_done"]
    /\ UNCHANGED <<queue, current_job_id, stop_event, canceller>>
    /\ UNCHANGED <<pipelineVars, conn, schedVars, download>>

\* future.result() of the yielded future and the "downloading" callback
ProcessJobFutureDone ==
    /\ worker.pc = "future_done"
    /\ jobs' = progress_callback(jobs, worker.job_id, "downloading")
    /\ \E i \in FuturesIn("done") :
          LET futures == [worker.futures EXCEPT ![i] = "yielded"]
          IN worker' = [worker EXCEPT
                           !.pc = IF \A k \in DOMAIN futures : futures[k] = "yielded"
                                  THEN "completed" ELSE "future_check",
                           !.futures = futures]
    /\ UNCHANGED <<queue, current_job_id, stop_event, canceller>>
    /\ UNCHANGED <<pipelineVars, conn, schedVars, download>>

\* the return out of the `with` block: the executor's __exit__ waits for the
\* downloads that are running
ProcessJobShutdown ==
    /\ worker.pc = "shutdown"
    /\ FuturesIn("running") = {}
    /\ worker' = [worker EXCEPT !.pc = "ensure"]
    /\ UNCHANGED <<jobs, queue, current_job_id, stop_event, canceller>>
    /\ UNCHANGED <<pipelineVars, conn, schedVars, download>>

\* the final callback of process_job
ProcessJobCompleted ==
    /\ worker.pc = "completed"
    /\ jobs' = progress_callback(jobs, worker.job_id, "completed")
    /\ worker' = [worker EXCEPT !.pc = "ensure"]
    /\ UNCHANGED <<queue, current_job_id, stop_event, canceller>>
    /\ UNCHANGED <<pipelineVars, conn, schedVars, download>>

\* _worker after process_job returned: ensure a final state
WorkerEnsure ==
    /\ worker.pc = "ensure"
    /\ jobs' = IF jobs[worker.job_id].status \notin {"cancelled", "completed", "failed"}
               THEN [jobs EXCEPT ![worker.job_id].status = "completed"]
               ELSE jobs
    /\ worker' = [Waiting EXCEPT !.pc = "finally", !.job_id = worker.job_id]
    /\ UNCHANGED <<queue, current_job_id, stop_event, canceller>>
    /\ UNCHANGED <<pipelineVars, conn, schedVars, download>>

\* the finally block: completed_at, and self.current_job_id = None
WorkerFinallyKeepsCurrent ==
    /\ worker.pc = "finally"
    /\ jobs' = [jobs EXCEPT ![worker.job_id].completed_at = <<now>>]
    /\ worker' = Waiting
    /\ UNCHANGED <<queue, current_job_id, stop_event, canceller>>
    /\ UNCHANGED <<pipelineVars, conn, schedVars, download>>

WorkerFinally ==
    /\ worker.pc = "finally"
    /\ jobs' = [jobs EXCEPT ![worker.job_id].completed_at = <<now>>]
    /\ current_job_id' = 0
    /\ worker' = Waiting
    /\ UNCHANGED <<queue, stop_event, canceller>>
    /\ UNCHANGED <<pipelineVars, conn, schedVars, download>>

NextJobs ==
    \/ \E force \in BOOLEAN : AddJobStore(force)
    \/ \E job_id \in 1..MaxJobs : AddJobPut(job_id)
    \/ CancelCheck
    \/ CancelSet
    \/ WorkerGet
    \/ WorkerAssign
    \/ WorkerClear
    \/ WorkerStart
    \/ \E dir_exists \in BOOLEAN : ProcessJobExists(dir_exists)
    \/ \E ok \in BOOLEAN : ProcessJobMakedirs(ok)
    \/ ProcessJobPageCheck
    \/ \E more \in BOOLEAN : ProcessJobPageFetch(more)
    \/ \E n \in 0..MaxItems, cpus \in 1..MaxCpus : ProcessJobDownloading(n, cpus)
    \/ \E i \in 1..MaxItems : ExecutorStart(i)
    \/ \E i \in 1..MaxItems, downloaded \in BOOLEAN : ExecutorFinish(i, downloaded)
    \/ ProcessJobFutureCheck
    \/ ProcessJobFutureDone
    \/ ProcessJobShutdown
    \/ ProcessJobCompleted
    \/ WorkerEnsure
    \/ WorkerFinally

SpecJobs == Init /\ [][NextJobs]_vars

\* the steps of the worker thread and of the executor's pool threads
WorkerStep ==
    \/ WorkerGet
    \/ WorkerAssign
    \/ WorkerClear
    \/ WorkerStart
    \/ \E dir_exists \in BOOLEAN : ProcessJobExists(dir_exists)
    \/ \E ok \in BOOLEAN : ProcessJobMakedirs(ok)
    \/ ProcessJobPageCheck
    \/ \E more \in BOOLEAN : ProcessJobPageFetch(more)
    \/ \E n \in 0..MaxItems, cpus \in 1..MaxCpus : ProcessJobDownloading(n, cpus)
    \/ \E i \in 1..MaxItems : ExecutorStart(i)
    \/ \E i \in 1..MaxItems, downloaded \in BOOLEAN : ExecutorFinish(i, downloaded)
    \/ ProcessJobFutureCheck
    \/ ProcessJobFutureDone
    \/ ProcessJobShutdown
    \/ ProcessJobCompleted
    \/ WorkerEnsure
    \/ WorkerFinally

\* the threads are scheduled: a worker or pool thread that can take a step
\* takes one
SpecJobsFair == Init /\ [][NextJobs]_vars /\ WF_vars(WorkerStep)

\* ------------------------------------------------------ download_image

\* the default of both download_image functions: retries=5, max_retries=5
retries == 5
max_retries == 5

\* 2 ** attempt
RECURSIVE TwoToThe(_)
TwoToThe(attempt) == IF attempt = 0 THEN 1 ELSE 2 * TwoToThe(attempt - 1)

\* what one request can come to: a 200, a 429, another status (say 500), or
\* an exception of the transport
Outcomes == {"200", "429", "500", "exception"}

\* random.uniform(0, 1), in tenths of a second
Jitters == {0, 5, 10}

\* a call of AsyncScraper.download_image or BooruDownloader.download_image;
\* `attempt` is the loop variable of `for attempt in range(retries)`
DownloadCall(impl) ==
    /\ download.pc \in {"idle", "returned"}
    /\ download' = [NoDownload EXCEPT !.impl = impl, !.pc = "request"]
    /\ UNCHANGED <<pipelineVars, conn, schedVars, jobVars>>

\* the scraper's attempt: session.get and the branches on response.status;
\* waits are in tenths of a second
ScraperAttempt(outcome) ==
    /\ download.impl = "scraper"
    /\ download.pc = "request"
    /\ LET attempt == download.attempt
           wait_time == 10 * (TwoToThe(attempt) + 1)
           d == [download EXCEPT !.outcomes = Append(@, outcome)]
       IN download' =
            IF outcome = "200"
            THEN [d EXCEPT !.pc = "returned", !.result = "bytes"]
            ELSE IF outcome = "429"
            THEN [d EXCEPT !.pc = "sleep", !.waits = Append(@, wait_time)]
            ELSE IF outcome = "500"
            THEN [d EXCEPT !.pc = "returned", !.result = "None"]
            ELSE IF attempt < retries - 1
            THEN [d EXCEPT !.pc = "sleep", !.waits = Append(@, wait_time)]
            ELSE [d EXCEPT !.pc = "returned", !.result = "None"]
    /\ UNCHANGED <<pipelineVars, conn, schedVars, jobVars>>

\* the downloader's attempt: get, raise_for_status and the write of the file;
\* every failure is an exception
DownloaderAttempt(outcome, jitter) ==
    /\ download.impl = "downloader"
    /\ download.pc = "request"
    /\ LET attempt == download.attempt
           wait_time == 10 * TwoToThe(attempt) + jitter
           d == [download EXCEPT !.outcomes = Append(@, outcome)]
       IN download' =
            IF outcome = "200"
            THEN [d EXCEPT !.pc = "returned", !.result = "True"]
            ELSE IF attempt < max_retries - 1
            THEN [d EXCEPT !.pc = "sleep", !.waits = Append(@, wait_time)]
            ELSE [d EXCEPT !.pc = "returned", !.result = "False"]
    /\ UNCHANGED <<pipelineVars, conn, schedVars, jobVars>>

\* the sleep returns: the next turn of the for loop, or the return after it
DownloadWake ==
    /\ download.pc = "sleep"
    /\ LET limit == IF download.impl = "scraper" THEN retries ELSE max_retries
       IN download' =
            IF download.attempt + 1 < limit
            THEN [download EXCEPT !.pc = "request", !.attempt = @ + 1]
            ELSE [download EXCEPT !.pc = "returned",
                                  !.result = IF download.impl = "scraper"
                                             THEN "None" ELSE "False"]
    /\ UNCHANGED <<pipelineVars, conn, schedVars, jobVars>>

NextDownload ==
    \/ \E impl \in {"scraper", "downloader"} : DownloadCall(impl)
    \/ \E outcome \in Outcomes : ScraperAttempt(outcome)
    \/ \E outcome \in Outcomes, jitter \in Jitters : DownloaderAttempt(outcome, jitter)
    \/ DownloadWake

SpecDownload == Init /\ [][NextDownload]_vars

\* ------------------------------------------------ properties of the store

Items == 1..NItems

HashOfItem(p) == calculate_hash(process_image_bytes(RawImage(p)))

PostIds(rows) == [i \in 1..Len(rows) |-> rows[i].post_id]

\* C5 as stated: a run of add_image calls with distinct fingerprints whose
\* payload sizes sum to at least the shard size limit has triggered exactly one
\* flush, whose rows start at the pre-flush row count of the shard.
C5_ExactlyOneFlush ==
    (run.distinct /\ run.bytes >= SHARD_SIZE_LIMIT)
        => (run.flushes = 1 /\ run.start_offset = run.pre_rows)

\* C5 amended: such a run has triggered at least one flush (a further one each
\* time the buffered byte count reaches the limit again), and the rows of the
\* latest one start at the pre-flush row count of the shard it wrote.
C5_AtLeastOneFlush ==
    (run.distinct /\ run.bytes >= SHARD_SIZE_LIMIT)
        => (run.flushes >= 1 /\ run.start_offset = run.pre_rows)

C5_Witness ==
    /\ run.distinct /\ run.bytes >= SHARD_SIZE_LIMIT /\ run.flushes = 1
    /\ Cardinality(run.hashes) >= 2
    /\ run.pre_rows > 0 /\ run.start_offset = run.pre_rows
    /\ lastOp.op = "add_image" /\ ret # NoFlush /\ ret.count >= 2

\* C6: an add_image call with a fingerprint in the seen-set returns None and
\* leaves buffer, seen-set, byte count and shard files as they were.
C6_DuplicateAddIsNoOp ==
    [][\A p \in Items, a \in Artists, read_ok \in BOOLEAN :
          (AddImageCall(p, a, read_ok) /\ HashOfItem(p) \in storage.seen_hashes)
              => (storage' = storage /\ files' = files /\ ret' = NoFlush)]_vars

C6_Witness ==
    /\ lastOp.op = "add_image" /\ lastOp.seen
    /\ ret = NoFlush
    /\ storage.buffer_size_bytes > SumSizes(storage.buffer)
    /\ \E i \in 1..Len(storage.buffer) :
          /\ storage.buffer[i].hash = HashOfItem(lastOp.post)
          /\ storage.buffer[i].post_id # ToString(lastOp.post)

\* C7: a flush (or close) with a non-empty buffer writes the buffered rows, in
\* the order of the successful add_image calls, after the rows the shard file
\* it names held before, leaves those and every other file alone, and returns
\* that file name, start_offset = the rows held before, and the buffered rows.
C7_FlushAppendsInOrder ==
    [][\A read_ok \in BOOLEAN :
          ((FlushCall(read_ok) \/ CloseCall(read_ok)) /\ storage.buffer # <<>>)
              => /\ ret' # NoFlush
                 /\ ret'.rows = storage.buffer
                 /\ PostIds(ret'.rows) = run.pending
                 /\ ret'.count = Len(storage.buffer)
                 /\ ret'.start_offset = Len(RowsOf(files, ret'.shard_file))
                 /\ files'[ret'.shard_file] = RowsOf(files, ret'.shard_file) \o storage.buffer
                 /\ read_ok => ret'.shard_file = shard_filename(storage.current_shard_index)
                 /\ \A f \in DOMAIN files \ {ret'.shard_file} : files'[f] = files[f]
                 /\ storage'.buffer = <<>>]_vars

C7_Witness ==
    /\ lastOp.op = "flush"
    /\ ret # NoFlush
    /\ ret.start_offset > 0
    /\ ret.count >= 2
    /\ Len(files[ret.shard_file]) = ret.start_offset + ret.count

\* whether this step's flush found the active shard on disk and could not read it
ReadFailed ==
    /\ ret' # NoFlush
    /\ shard_filename(storage.current_shard_index) \in DOMAIN files
    /\ ~lastOp'.read_ok

\* whether this step's flush left the file it wrote at or above the limit
LeftFull ==
    /\ ret' # NoFlush
    /\ getsize(files', ret'.shard_file) >= SHARD_SIZE_LIMIT

\* C8: the active shard index never decreases, it goes up by one exactly for
\* a flush that leaves the written shard at or above the limit and by one for
\* a flush that cannot read the existing shard, and a newly allocated index
\* names no shard file that existed when it was allocated.
C8_IndexMonotonic ==
    [][/\ storage'.current_shard_index >= storage.current_shard_index
       /\ storage'.current_shard_index =
             storage.current_shard_index + (IF ReadFailed THEN 1 ELSE 0)
                                         + (IF LeftFull THEN 1 ELSE 0)
       /\ \A i \in (storage.current_shard_index + 1)..storage'.current_shard_index :
             shard_filename(i) \notin DOMAIN files]_vars

C8_Witness ==
    /\ ret # NoFlush
    /\ lastOp.op \in {"add_image", "flush"}
    /\ storage.current_shard_index = parse_index(ret.shard_file) + 1
    /\ storage.current_shard_index >= 2
    /\ restarts >= 1

\* C9: a shard file at or above the limit is never written again, so what a
\* shard holds without the rows of the last flush into it is below the limit.
C9_FullShardNeverAppended ==
    [][/\ \A f \in DOMAIN files :
             getsize(files, f) >= SHARD_SIZE_LIMIT => files'[f] = files[f]
       /\ ret' # NoFlush /\ files' # files
             => getsize(files', ret'.shard_file) - SumSizes(ret'.rows) < SHARD_SIZE_LIMIT]_vars

C9_Witness ==
    /\ restarts >= 1
    /\ resumed.rows > 0
    /\ ret # NoFlush
    /\ parse_index(ret.shard_file) = resumed.index
    /\ ret.start_offset > 0
    /\ getsize(files, ret.shard_file) > SHARD_SIZE_LIMIT
    /\ storage.current_shard_index = resumed.index + 1

\* the index _init_shard_state is to select over directory fs
ExpectedIndex(fs) ==
    IF DOMAIN fs = {} THEN 0
    ELSE LET m == MaxOf({parse_index(f) : f \in DOMAIN fs})
         IN IF SumSizes(fs[shard_filename(m)]) < SHARD_SIZE_LIMIT THEN m ELSE m + 1

\* C10: right after construction the active shard is the highest-numbered
\* existing one if it is below the limit, the next index if it is not, 0 when
\* there is none; and the first flush after construction, when it writes the
\* shard selected, starts at the rows that shard held at construction.
C10_ResumeOnConstruction ==
    /\ lastOp.op = "construct"
          => /\ storage.current_shard_index = ExpectedIndex(files)
             /\ storage.buffer = <<>>
             /\ resumed.index = storage.current_shard_index
    /\ (ret # NoFlush /\ resumed.nflush = 1
            /\ ret.shard_file = shard_filename(resumed.index))
          => ret.start_offset = resumed.rows

C10_Witness ==
    /\ restarts >= 1
    /\ resumed.nflush = 1
    /\ resumed.rows > 0
    /\ ret # NoFlush
    /\ ret.shard_file = shard_filename(resumed.index)
    /\ ret.start_offset = resumed.rows
    /\ \E f \in DOMAIN files : parse_index(f) < resumed.index

\* --------------------------------------------- properties of the pipeline

\* C1: the images table holds at most one content item per fingerprint.
C1_OneItemPerFingerprint ==
    \A i, j \in DOMAIN db.images :
        db.images[i].hash = db.images[j].hash => i = j

\* C2: every images row names a shard file and an offset at which the file on
\* disk holds the row with its fingerprint, origin id and payload; and the
\* rows recorded for a flush result carry start_offset + index-in-batch.
C2_CatalogLocatesRows ==
    /\ \A i \in DOMAIN db.images :
          LET image == db.images[i]
          IN /\ image.shard_file \in DOMAIN files
             /\ image.offset < Len(files[image.shard_file])
             /\ files[image.shard_file][image.offset + 1].hash = image.hash
             /\ files[image.shard_file][image.offset + 1].post_id = image.post_id
             /\ files[image.shard_file][image.offset + 1].image_bytes = written[i]
    /\ (ret # NoFlush /\ pc # "closed")
          => /\ Len(db.images) >= ret.count
             /\ \A k \in 1..ret.count :
                   LET image == db.images[Len(db.images) - ret.count + k]
                   IN /\ image.shard_file = ret.shard_file
                      /\ image.offset = ret.start_offset + (k - 1)
                      /\ image.hash = ret.rows[k].hash

C2_Witness ==
    /\ Len(db.images) >= 4
    /\ \E i \in DOMAIN db.images : parse_index(db.images[i].shard_file) >= 1
    /\ ret # NoFlush /\ pc = "gather" /\ ret.start_offset > 0 /\ ret.count >= 2

\* C3: when scrape_artist has returned, the store's buffer is empty and every
\* post buffered during the pass has an images row.
C3_ReturnFollowsFlush ==
    (pc = "idle" /\ pass_result # NoResult)
        => /\ storage.buffer = <<>>
           /\ \A post_id \in passAdded :
                 \E i \in DOMAIN db.images : db.images[i].post_id = post_id

\* C4: a read by catalog location serves the payload that was written.
C4_RoundTrip ==
    lastRead.id # 0 => lastRead.data = written[lastRead.id]

\* --------------------------------------------- properties of the catalog

\* C11: what a catalog reader sees is the catalog as it was before the flush
\* result being recorded, or with every row of it: each images row it sees has
\* a hash_index row for its hash, and it never sees part of a batch.
C11_BatchVisibleWhole ==
    LET seen == Visible(db, conn)
    IN /\ \A k \in DOMAIN seen.images : seen.images[k].hash \in DOMAIN seen.hash_index
       /\ InUpdate =>
             \/ seen = conn.pending /\ conn.i = 0
             \/ seen.images = SubSeq(conn.pending.images, 1,
                                     Len(conn.pending.images) - conn.i)
       /\ (lastOp.op = "commit") =>
             /\ Len(seen.images) = lastOp.before + lastOp.rows
             /\ lastOp.rows = ret.count

C11_Witness ==
    /\ InUpdate
    /\ conn.i >= 1 /\ conn.i < Len(conn.flush_result.rows)
    /\ Len(db.images) >= 1
    /\ Len(conn.pending.images) = Len(db.images) + conn.i

\* ------------------------------------------------ properties of a pass

\* the newest item of the first page a pass listed, None when the first
\* listing failed or was empty
NewestListed(ps, listed) ==
    IF ~listed \/ post_list(ps.feed, 1) = <<>> THEN None
    ELSE ToString(post_list(ps.feed, 1)[1])

\* C12: scrape_artist returns the id of the newest item of the first page it
\* listed when that id differs from the stored cursor, and the stored cursor
\* when the first item is the cursor, the first page is empty or the first
\* listing failed.
C12_PassResult ==
    [][(pc \in {"gather", "final"} /\ pc' = "idle") =>
          LET newest == NewestListed(pass, pc = "gather" \/ pass.page > 1)
          IN pass_result' = IF newest = None \/ newest = pass.last_scraped_post
                            THEN pass.last_scraped_post ELSE newest]_vars

C12_Witness ==
    /\ lastOp.op = "return"
    /\ lastOp.cursor # None
    /\ pass_result # lastOp.cursor
    /\ lastOp.page >= 2

\* ------------------------------------------- properties of the scheduler

\* C13: the probability_weight of every row of artists stays between the
\* floor 0.1 and the cap 100.0, whatever passes the scheduler has made.
C13_WeightInBounds ==
    \A a \in DOMAIN artists :
        /\ artists[a].probability_weight >= WEIGHT_FLOOR
        /\ artists[a].probability_weight <= WEIGHT_CAP

C13_Witness ==
    /\ scheduler.pc = "pause"
    /\ scheduler.row.probability_weight < WEIGHT_CAP
    /\ (scheduler.row.probability_weight * 11) \div 10 > WEIGHT_CAP
    /\ artists[scheduler.artist].probability_weight = WEIGHT_CAP
    /\ \E b \in DOMAIN artists : artists[b].probability_weight = WEIGHT_FLOOR

\* C14: the update after a pass multiplies the weight by 1.1, capped at 100.0,
\* exactly when the returned cursor differs from the row's cursor, and by 0.9,
\* floored at 0.1, otherwise; below the cap the first is a strict increase,
\* above the floor the second is a strict decrease.
C14_WeightStep ==
    [][(scheduler.pc = "update" /\ scheduler'.pc # "update") =>
          LET a == scheduler.artist
              w == artists[a].probability_weight
              up == (w * 11 + 5) \div 10
              down == (w * 9 + 5) \div 10
          IN IF scheduler.last_post # artists[a].last_scraped_post
             THEN /\ artists'[a].probability_weight =
                        IF up < WEIGHT_CAP THEN up ELSE WEIGHT_CAP
                  /\ w < WEIGHT_CAP => artists'[a].probability_weight > w
             ELSE /\ artists'[a].probability_weight =
                        IF down > WEIGHT_FLOOR THEN down ELSE WEIGHT_FLOOR
                  /\ w > WEIGHT_FLOOR => artists'[a].probability_weight < w]_vars

C14_Witness ==
    /\ scheduler.pc = "pause"
    /\ scheduler.row.last_scraped_post # None
    /\ artists[scheduler.artist].last_scraped_post # scheduler.row.last_scraped_post
    /\ artists[scheduler.artist].probability_weight > scheduler.row.probability_weight
    /\ \E b \in DOMAIN artists :
          /\ artists[b].last_scraped_post # None
          /\ artists[b].probability_weight < WEIGHT_DEFAULT
          /\ artists[b].probability_weight > WEIGHT_FLOOR

\* C15: select_artist never returns a row whose last_checked is less than the
\* cooldown window back, unless that row is the only one of the table; with no
\* row, or none off cooldown, the scheduler starts no pass: it sleeps, and
\* after the sleep selects again.
C15_Cooldown ==
    [][/\ (scheduler.pc = "select" /\ scheduler'.pc = "scrape") =>
            LET a == scheduler'.artist
            IN \/ artists[a].last_checked = NULL
               \/ now >= artists[a].last_checked[1] + cooldown_minutes
               \/ DOMAIN artists = {a}
       /\ (/\ scheduler.pc = "select" /\ scheduler' # scheduler
           /\ \A a \in DOMAIN artists :
                 /\ artists[a].last_checked # NULL
                 /\ now < artists[a].last_checked[1] + cooldown_minutes)
            => scheduler'.pc = "sleep"
       /\ (scheduler.pc = "sleep" /\ scheduler' # scheduler)
            => (scheduler'.pc = "select" /\ artists' = artists)]_vars

C15_Witness ==
    /\ scheduler.pc = "scrape"
    /\ scheduler.row.last_checked # NULL
    /\ scheduler.row.last_checked[1] >= 0
    /\ now >= scheduler.row.last_checked[1] + cooldown_minutes
    /\ scheduler.row.last_scraped_post # None
    /\ scheduler.row.probability_weight \notin
          {WEIGHT_DEFAULT, WEIGHT_FAVORITE} \cup EarlierWeights
    /\ \E b \in DOMAIN artists :
          /\ b # scheduler.artist
          /\ artists[b].last_checked # NULL
          /\ now < artists[b].last_checked[1] + cooldown_minutes

\* C16: a row of artists is never removed, and it changes only in the update
\* step that follows the return of a pass on that row; a pass that raises
\* changes no row.
C16_RowsChangeOnlyInUpdate ==
    [][/\ \A a \in DOMAIN artists :
            /\ a \in DOMAIN artists'
            /\ artists'[a] # artists[a] =>
                  (scheduler.pc = "update" /\ scheduler.artist = a
                   /\ scheduler'.pc = "pause")
       /\ (scheduler.pc = "scrape" /\ scheduler'.pc = "stopped")
            => artists' = artists]_vars

C16_Witness ==
    /\ scheduler.pc = "pause"
    /\ Cardinality(DOMAIN artists) >= 2
    /\ artists[scheduler.artist] # scheduler.row
    /\ \E b \in DOMAIN artists :
          b # scheduler.artist /\ artists[b].last_scraped_post # None

\* -------------------------------------------- properties of the downloads

\* the posts of the current page whose download_image call is in flight
InFlight(t) == {p \in DOMAIN t : t[p].stage = "downloading"}

\* C17: at most 5 downloads are in flight at once, whatever the length of the
\* page; a download starts only in a step that takes one of the free permits
\* and each download that ends gives its permit back.
C17_AtMostFiveDownloads ==
    [][/\ Cardinality(InFlight(tasks')) <= 5
       /\ permits' = 5 - Cardinality(InFlight(tasks'))
       /\ \A p \in InFlight(tasks') \ InFlight(tasks) :
             permits > 0 /\ permits' = permits - 1
       /\ \A p \in InFlight(tasks) \ InFlight(tasks') :
             permits' = permits + 1]_vars

C17_Witness ==
    /\ Cardinality(InFlight(tasks)) = 5
    /\ permits = 0
    /\ \E p \in DOMAIN tasks : tasks[p].stage = "queued"
    /\ Cardinality(DOMAIN tasks) > 5

\* ------------------------------------------------- properties of the jobs

Terminal == {"completed", "cancelled", "failed"}

\* C18: at most one job is neither pending nor in a terminal state, and a job
\* that has started was put on the queue, with every job put before it in a
\* terminal state.
C18_OneAtATimeInOrder ==
    /\ Cardinality({j \in DOMAIN jobs :
                       jobs[j].status \notin Terminal \cup {"pending"}}) <= 1
    /\ \A j \in DOMAIN jobs :
          jobs[j].status # "pending" =>
             /\ jobs[j].put > 0
             /\ \A k \in DOMAIN jobs :
                   (jobs[k].put > 0 /\ jobs[k].put < jobs[j].put)
                      => jobs[k].status \in Terminal

C18_Witness ==
    /\ \E j, k \in DOMAIN jobs :
          /\ jobs[k].put > 0 /\ jobs[k].put < jobs[j].put
          /\ k > j
          /\ jobs[k].status \in Terminal
          /\ jobs[j].status \notin Terminal \cup {"pending"}

\* C19: a job's status is always one of pending, running, completed,
\* cancelled, failed; it changes only from pending to running and from running
\* to completed, cancelled or failed.
C19_StatusLifecycle ==
    [][\A j \in DOMAIN jobs' :
          /\ jobs'[j].status \in {"pending", "running"} \cup Terminal
          /\ (j \in DOMAIN jobs /\ jobs'[j].status # jobs[j].status) =>
                \/ jobs[j].status = "pending" /\ jobs'[j].status = "running"
                \/ jobs[j].status = "running" /\ jobs'[j].status \in Terminal]_vars

\* C20: a job ends cancelled only when a cancellation request that found
\* that job running has set the flag.
C20_CancelHitsRunningJob ==
    \A j \in DOMAIN jobs :
        jobs[j].status = "cancelled" => j \in canceller.asked

\* ------------------------------------------ properties of error handling

\* C26: a page listing that fails is tried again (up to 5 attempts, with
\* backoff) before the pass treats the listing as failed: the step in which a
\* listing fails leaves the pass at the listing of the same page.
C26_ListingRetried ==
    [][ListPage(FALSE) => (pc' = "list" /\ pass'.page = pass.page)]_vars

\* the post a task is for was handed to the store in this step: it is in the
\* buffer, or in the images rows of the flush the step made
Kept(p) ==
    \/ \E i \in DOMAIN storage'.buffer : storage'.buffer[i].post_id = ToString(p)
    \/ \E i \in (DOMAIN db'.images) \ (DOMAIN db.images) :
          db'.images[i].post_id = ToString(p)

\* the task ends in this step because its post has no URL, its download
\* returned nothing, or the image could not be processed or hashed
ItemFails(p) ==
    \/ tasks[p].stage \in {"queued", "downloading", "processing"}
    \/ tasks[p].stage = "hashing" /\ tasks[p].data = process_image_bytes(Unhashable)

\* C29: when the task of one post ends, the pass goes on and every other task
\* is as it was; a task that ends on a failed download, transform or
\* fingerprint leaves the store and the catalog unchanged, and a task that
\* ends after all three succeeded has put its post into the buffer or the
\* catalog, unless the buffer already held its fingerprint.
C29_ItemFailureNotFatal ==
    [][\A p \in (DOMAIN tasks) \cap (DOMAIN tasks') :
          (tasks[p].stage # "done" /\ tasks'[p].stage = "done") =>
             /\ pc' = "gather"
             /\ \A q \in (DOMAIN tasks) \ {p} : tasks'[q] = tasks[q]
             /\ ItemFails(p) => (storage' = storage /\ files' = files /\ db' = db)
             /\ ~ItemFails(p) =>
                   \/ HashOfItem(p) \in storage.seen_hashes
                   \/ Kept(p)]_vars

C29_Witness ==
    /\ pc = "gather"
    /\ lastOp.op = "add_image"
    /\ ToString(lastOp.post) \in passAdded
    /\ \E p \in DOMAIN tasks :
          /\ tasks[p].stage = "done"
          /\ ToString(p) \notin passAdded
    /\ \E q \in DOMAIN tasks : tasks[q].stage = "hashing" /\ ItemFails(q)

\* C30: a flush that cannot read the existing shard ends the pass with an
\* error: the step of process_post in which it happens is the last of the pass.
C30_StorageFailureIsFatal ==
    [][\A p \in Posts :
          (/\ StoreImage(p, FALSE)
           /\ shard_filename(storage.current_shard_index) \in DOMAIN files
           /\ files' # files)
             => pc' = "closed"]_vars

\* C28: a pass that listed posts and whose every download returned nothing
\* records no item and returns the stored cursor, so that the scheduler
\* leaves the cursor as it was and does not raise the weight.
C28_AllDownloadsFail ==
    [][(/\ pc \in {"gather", "final"} /\ pc' = "idle"
        /\ pass.posts_count > 0
        /\ pass.download_failures = pass.posts_count)
          => (passAdded' = {} /\ pass_result' = pass.last_scraped_post)]_vars

\* C27: when a listing of a scheduler pass fails, on the first page or on a
\* later one, the update that follows the pass leaves the cursor and the
\* weight of the source's row equal to their values before the pass.
C27_ListingFailureKeepsRow ==
    [][(/\ scheduler.pc = "update" /\ scheduler'.pc = "pause"
        /\ scheduler.list_failed # 0)
          => LET a == scheduler.artist
             IN /\ artists'[a].last_scraped_post = scheduler.row.last_scraped_post
                /\ artists'[a].probability_weight = scheduler.row.probability_weight]_vars

\* -------------------------------------- properties of the job coordinator

C22_FailureKeepsWorker ==
    /\ [][/\ (worker.pc = "makedirs" /\ worker'.pc \notin {"makedirs", "page_check"})
               => /\ jobs'[worker.job_id].status = "failed"
                  /\ jobs'[worker.job_id].error # None
                  /\ worker'.pc = "finally"
          /\ (worker.pc = "finally" /\ worker' # worker)
               => (worker' = Waiting /\ current_job_id' = 0)]_vars
    /\ \A j \in 1..MaxJobs :
          (j \in DOMAIN jobs /\ jobs[j].put > 0)
             ~> (j \in DOMAIN jobs /\ jobs[j].status \in Terminal)

C22_Witness ==
    /\ current_job_id = 0
    /\ worker = Waiting
    /\ \E j, k \in DOMAIN jobs :
          /\ jobs[j].status = "failed" /\ jobs[j].error # None
          /\ jobs[j].put < jobs[k].put
          /\ jobs[k].status = "completed"

\* C23: once the cancel flag is set, no download of the job is started.
C23_NoDownloadStartsAfterCancel ==
    [][\A i \in (DOMAIN worker.futures) \cap (DOMAIN worker'.futures) :
          (stop_event /\ worker.futures[i] = "pending")
             => worker'.futures[i] # "running"]_vars

\* C24: a job of three downloads that is cancelled when one of them has
\* written its file ends with status cancelled and with exactly that one file
\* written.
C24_CancelledAfterK ==
    [][(/\ worker.pc = "shutdown" /\ worker'.pc = "ensure"
        /\ Len(worker.futures) = 3
        /\ worker.at_cancel = 1)
          => /\ jobs[worker.job_id].status = "cancelled"
             /\ worker.saved = worker.at_cancel]_vars

\* ------------------------------------------------ properties of download

\* C25: an attempt of download_image that fails, a 429 included, and is not
\* the fifth is followed by a backoff sleep (and then the next attempt): it
\* does not end the call.
C25_FailedAttemptRetried ==
    [][(/\ download.pc = "request" /\ download' # download
        /\ download'.outcomes[Len(download'.outcomes)] # "200"
        /\ download.attempt < retries - 1)
          => download'.pc = "sleep"]_vars

\* ------------------------------------------- properties of the seen-set

\* the fingerprints of the rows of a buffer or shard
HashesOf(rows) == {rows[i].hash : i \in 1..Len(rows)}

\* C36: the seen-set is always exactly the set of fingerprints of the rows in
\* the buffer, and no two rows of the buffer have the same fingerprint; every
\* call that writes a shard leaves the buffer and the seen-set both empty.
C36_SeenIsBufferHashes ==
    /\ [](/\ storage.seen_hashes = HashesOf(storage.buffer)
          /\ Cardinality(storage.seen_hashes) = Len(storage.buffer))
    /\ [][files' # files
            => (storage'.buffer = <<>> /\ storage'.seen_hashes = {})]_vars

\* a fingerprint that an earlier flush wrote to a shard is in the buffer again
C36_Witness ==
    /\ lastOp.op = "add_image" /\ ~lastOp.seen
    /\ \E f \in DOMAIN files :
          HashOfItem(lastOp.post) \in HashesOf(files[f])
    /\ HashOfItem(lastOp.post) \in storage.seen_hashes
    /\ Len(storage.buffer) >= 2

\* ------------------------------------------------ properties of shutdown

\* the images rows that point at the given row of the given shard file
PointingAt(f, offset) ==
    {i \in DOMAIN db.images :
        db.images[i].shard_file = f /\ db.images[i].offset = offset}

\* C33: once the scraper is closed, every row of every shard file has exactly
\* one images row pointing at its shard file and offset.
C33_ShardsAndCatalogAgree ==
    pc = "closed" =>
        \A f \in DOMAIN files :
            \A k \in 1..Len(files[f]) : Cardinality(PointingAt(f, k - 1)) = 1

\* ------------------------------------------------ properties of the cursor

\* the running pass has listed its first page and the newest post listed is
\* the stored cursor
NewestIsCursor ==
    /\ pc = "gather"
    /\ pass.page = 1
    /\ NewestListed(pass, TRUE) = pass.last_scraped_post

\* the weight Scheduler.run stores for a row of weight w after a pass on it
\* that returned last_post
NewWeight(w, last_post, last_scraped_post) ==
    IF FoundNew(last_post, last_scraped_post) THEN Raised(w) ELSE Lowered(w)

\* C31: a pass whose first page lists the stored cursor as its newest post
\* schedules no download, leaves the store, the shard files and the catalog as
\* they are, and returns the stored cursor; the weight the scheduler then
\* stores is lower than the row's, or the floor.
C31_RerunIsNoOp ==
    [][NewestIsCursor =>
          /\ tasks = EmptyMap /\ tasks' = EmptyMap
          /\ storage' = storage /\ files' = files /\ db' = db
          /\ passAdded' = {}
          /\ pc' \in {"gather", "idle"}
          /\ pc' = "idle" =>
                /\ pass_result' = pass.last_scraped_post
                /\ \A w \in EarlierWeights \cup {WEIGHT_DEFAULT, WEIGHT_FLOOR} :
                      LET new_weight == NewWeight(w, pass_result', pass.last_scraped_post)
                      IN /\ new_weight >= WEIGHT_FLOOR
                         /\ new_weight <= w
                         /\ w > WEIGHT_FLOOR => new_weight < w]_vars

C31_Witness ==
    /\ lastOp.op = "return" /\ lastOp.at = "cursor" /\ lastOp.page = 1
    /\ passes = 2
    /\ pass_result = lastOp.cursor
    /\ passAdded = {}
    /\ \E i \in DOMAIN db.images : db.images[i].post_id = lastOp.cursor

\* the positions of a listed page that hold the stored cursor
CursorAt(posts, cursor) == {i \in 1..Len(posts) : ToString(posts[i]) = cursor}

\* the posts of a listed page that come before the stored cursor: all of
\* them when the page does not list it
BeforeCursor(posts, cursor) ==
    {posts[i] : i \in {j \in 1..Len(posts) : \A c \in CursorAt(posts, cursor) : j < c}}

\* C32: listing a page schedules exactly the posts listed before the stored
\* cursor; while they are processed no other post is scheduled or added; the
\* pass leaves the gather only when every one of them has finished, and when
\* the page held the cursor it returns without listing another page.
C32_StopsAtCursor ==
    [][LET posts == post_list(pass.feed, pass.page)
           cursor == pass.last_scraped_post
       IN /\ (pc = "list" /\ pc' = "gather")
               => DOMAIN tasks' = BeforeCursor(posts, cursor)
          /\ (pc = "gather" /\ pc' = "gather")
               => /\ DOMAIN tasks' = DOMAIN tasks
                  /\ passAdded' \subseteq
                        passAdded \cup {ToString(p) : p \in BeforeCursor(posts, cursor)}
          /\ (pc = "gather" /\ pc' # "gather")
               => /\ \A p \in DOMAIN tasks : tasks[p].stage = "done"
                  /\ passAdded' = passAdded
                  /\ pc' = IF CursorAt(posts, cursor) # {} THEN "idle" ELSE "list"]_vars

C32_Witness ==
    /\ pc = "gather"
    /\ CursorAt(post_list(pass.feed, pass.page), pass.last_scraped_post) # {}
    /\ tasks # EmptyMap
    /\ \A p \in DOMAIN tasks : tasks[p].stage = "done"
    /\ passAdded # {}
    /\ \E i \in 1..Len(post_list(pass.feed, pass.page)) :
          post_list(pass.feed, pass.page)[i] \notin
             BeforeCursor(post_list(pass.feed, pass.page), pass.last_scraped_post)
                \cup {p \in Posts : ToString(p) = pass.last_scraped_post}

\* ------------------------------------ properties of cancellation and end

\* C34: once a request has found job J current and set the flag, every poll
\* of the flag that J makes afterwards ends J with status cancelled.
C34_AcceptedCancelNotLost ==
    [][((ProcessJobPageCheck \/ ProcessJobFutureCheck)
          /\ worker.job_id \in canceller.asked)
            => jobs'[worker.job_id].status = "cancelled"]_vars

\* C35: every job put on the queue reaches a terminal status with
\* completed_at set; a job has completed_at only with a terminal status; and
\* the worker takes a job off the queue only when current_job_id is None.
C35_EveryJobEnds ==
    /\ \A j \in 1..MaxJobs :
          (j \in DOMAIN jobs /\ jobs[j].put > 0)
             ~> (/\ j \in DOMAIN jobs
                 /\ jobs[j].status \in Terminal
                 /\ jobs[j].completed_at # NULL)
    /\ [](\A j \in DOMAIN jobs :
            jobs[j].completed_at # NULL => jobs[j].status \in Terminal)
    /\ [][queue' # queue /\ Len(queue') < Len(queue) => current_job_id = 0]_vars

C35_Witness ==
    /\ current_job_id = 0
    /\ worker.pc = "assign"
    /\ \E j \in DOMAIN jobs :
          /\ j # worker.job_id
          /\ jobs[j].status = "cancelled"
          /\ jobs[j].completed_at # NULL
    /\ jobs[worker.job_id].status = "pending"

====
